---- MODULE Spec2Model ----
(***************************************************************************)
(* Agent control loop of ReactAIAgent: the top-level while-loop that reads *)
(* a prompt, calls the planner, branches on the reply's `step`, runs one   *)
(* task through executeTask and appends the reply to `message`.            *)
(***************************************************************************)
EXTENDS Integers, Sequences, FiniteSets, TLC

\* ------------------------------------------------------------------ bounds
MaxHistory == 4      \* longest `message` array explored
MaxCalls == 2        \* most executeTask calls a caller of the library makes
MaxDepth == 2        \* deepest directory nesting below the launch directory

\* ------------------------------------------------------- JSON values, text
\* A JavaScript value as the loop sees it after JSON.parse.
JStr(s) == [kind |-> "string", str |-> s, arr |-> <<>>]
JArr(a) == [kind |-> "array", str |-> "", arr |-> a]
JBool(b) == [kind |-> "boolean", str |-> IF b THEN "true" ELSE "false", arr |-> <<>>]
JNull == [kind |-> "null", str |-> "", arr |-> <<>>]
JUndefined == [kind |-> "undefined", str |-> "", arr |-> <<>>]

\* JavaScript truthiness of a value (the `fType &&` test).
Truthy(v) ==
    \/ v.kind \in {"array", "function"}
    \/ v.kind = "string" /\ v.str # ""
    \/ v.kind = "boolean" /\ v.str = "true"

\* `a || b`
OrElse(a, b) == IF Truthy(a) THEN a ELSE b

\* A piece of text: either plain text or the text of a JSON object, whose
\* members are kept in textual order (duplicate keys and insignificant
\* whitespace are properties of the text, not of the parsed object).
PlainText(s) == [isJson |-> FALSE, str |-> s, ws |-> FALSE, members |-> <<>>]
JsonText(ms, ws) == [isJson |-> TRUE, str |-> "", ws |-> ws, members |-> ms]
Member(k, v) == [k |-> k, v |-> v]

Keys(obj) == {obj[i].k : i \in 1..Len(obj)}

\* obj[key]; undefined when the object has no such property.
Get(obj, key) ==
    IF key \in Keys(obj)
    THEN (CHOOSE m \in {obj[i] : i \in 1..Len(obj)} : m.k = key).v
    ELSE JUndefined

\* JSON.parse on the members of an object text: a repeated key keeps the
\* position of its first occurrence and the value of its last one.
RECURSIVE ParseMembers(_, _)
ParseMembers(ms, obj) ==
    IF ms = <<>> THEN obj
    ELSE LET m == Head(ms) IN
         ParseMembers(Tail(ms),
            IF m.k \in Keys(obj)
            THEN [i \in 1..Len(obj) |-> IF obj[i].k = m.k THEN m ELSE obj[i]]
            ELSE Append(obj, m))

JSONparseThrows(text) == ~text.isJson
JSONparse(text) == ParseMembers(text.members, <<>>)

\* JSON.stringify of an object: compact text, properties in object order,
\* undefined-valued properties omitted.
JSONstringify(obj) ==
    JsonText(SelectSeq(obj, LAMBDA m : m.v.kind # "undefined"), FALSE)

\* --------------------------------------------------------------- messages
system_prompt == PlainText("system_prompt")
Msg(role, content) == [role |-> role, content |-> content]

\* Variant of userMessage: the prompt is pushed with the system role.
userMessageAsSystem(prompt) == Msg("system", PlainText(prompt))

\* { role: 'user', content: prompt }
userMessage(prompt) == Msg("user", PlainText(prompt))

\* Variant of assistantMessage: only the step of the reply is recorded.
assistantMessageStepOnly(obj) ==
    Msg("assistant", JsonText(<<Member("step", Get(obj, "step"))>>, FALSE))

\* { role: 'assistant', content: JSON.stringify(parsed_result) }
assistantMessage(obj) == Msg("assistant", JSONstringify(obj))

\* ------------------------------------------------------------- filesystem
\* Paths are absolute paths written relative to the launch directory
\* (process.cwd() at start), which is <<>>; everything above the launch
\* directory exists and is not modelled.
Names == {"a", "b"}
Paths == UNION {[1..n -> Names] : n \in 0..MaxDepth} \cup {<<"notes.txt">>}
Outside == <<"..">>

NoNode == [kind |-> "none", content |-> ""]
DirNode == [kind |-> "dir", content |-> ""]
\* Variant of FileNode: the file is created empty.
FileNodeEmpty(c) == [kind |-> "file", content |-> ""]

FileNode(c) == [kind |-> "file", content |-> c]

\* The path strings the planner uses, split at "/".
Segments(s) ==
    CASE s = "" -> <<>>
      [] s = "." -> <<".">>
      [] s = ".." -> <<"..">>
      [] s = "a" -> <<"a">>
      [] s = "b" -> <<"b">>
      [] s = "a/b" -> <<"a", "b">>
      [] s = "../a" -> <<"..", "a">>
      [] OTHER -> <<s>>

RECURSIVE ResolveSegs(_, _)
ResolveSegs(cur, segs) ==
    IF segs = <<>> \/ cur = Outside THEN cur
    ELSE LET h == Head(segs) IN
         IF h = "." THEN ResolveSegs(cur, Tail(segs))
         ELSE IF h = ".."
              THEN IF cur = <<>> THEN Outside
                   ELSE ResolveSegs(SubSeq(cur, 1, Len(cur) - 1), Tail(segs))
              ELSE ResolveSegs(Append(cur, h), Tail(segs))

\* path.resolve(currentDir, s) for a string s
pathResolve(cur, s) == ResolveSegs(cur, Segments(s))
pathDirname(p) == IF p = <<>> THEN Outside ELSE SubSeq(p, 1, Len(p) - 1)

Prefixes(p) == {SubSeq(p, 1, n) : n \in 0..Len(p)}
IsPrefix(p, q) == Len(p) <= Len(q) /\ SubSeq(q, 1, Len(p)) = p

existsSync(f, p) == p = Outside \/ f[p].kind # "none"
isDirectory(f, p) == p = Outside \/ f[p].kind = "dir"

\* fs.mkdirSync(p, {recursive: true}): fails when p or one of its ancestors
\* is a regular file, otherwise p and every missing ancestor become
\* directories.
mkdirSyncThrows(f, p) == p # Outside /\ \E q \in Prefixes(p) : f[q].kind = "file"
mkdirSync(f, p) ==
    IF p = Outside THEN f
    ELSE [q \in Paths |-> IF q \in Prefixes(p) THEN DirNode ELSE f[q]]

\* fs.writeFileSync(p, c): fails on a directory and when the parent is not
\* a directory.
writeFileSyncThrows(f, p) ==
    \/ f[p].kind = "dir"
    \/ ~isDirectory(f, pathDirname(p))
\* Variant of writeFileSync: a file that exists keeps its content.
writeFileSyncKeepingOld(f, p, c) ==
    [f EXCEPT ![p] = IF f[p].kind = "file" THEN f[p] ELSE FileNode(c)]

writeFileSync(f, p, c) == [f EXCEPT ![p] = FileNode(c)]

\* fs.readFileSync(p, 'utf8') of an existing path: fails on a directory.
readFileSyncThrows(f, p) == f[p].kind # "file"
readFileSync(f, p) == f[p].content

\* Variant of rmSync: the directory goes, what is below it stays.
rmSyncShallow(f, p) == [f EXCEPT ![p] = NoNode]

\* fs.rmSync(p, {recursive: true, force: true}) and fs.unlinkSync(p)
rmSync(f, p) == [q \in Paths |-> IF IsPrefix(p, q) THEN NoNode ELSE f[q]]
unlinkSync(f, p) == [f EXCEPT ![p] = NoNode]

\* String.prototype.includes on the texts of the model.
Includes(content, searchText) ==
    \/ searchText = ""
    \/ content = searchText
    \/ content = "hi yo" /\ searchText \in {"hi", "yo"}

\* ------------------------------------------------------------ task outcome
\* What a call leaves behind: the settled (or pending) promise, the
\* filesystem and currentDir.
Fulfilled(f, cwd, v) ==
    [status |-> "fulfilled", value |-> v, error |-> "", fs |-> f, cwd |-> cwd]
Rejected(f, cwd, e) ==
    [status |-> "rejected", value |-> JUndefined, error |-> e, fs |-> f, cwd |-> cwd]
Pending(f, cwd) ==
    [status |-> "pending", value |-> JUndefined, error |-> "", fs |-> f, cwd |-> cwd]

\* Variant of writeFile: the cursor follows the directory written to.
writeFileMovingCursor(f, cwd, targetPath, content) ==
    IF targetPath.kind # "string" THEN Rejected(f, cwd, "TypeError")
    ELSE LET fullPath == pathResolve(cwd, targetPath.str)
             dir == pathDirname(fullPath)
         IN IF mkdirSyncThrows(f, dir) THEN Rejected(f, cwd, "EEXIST")
            ELSE LET g == mkdirSync(f, dir) IN
                 IF content.kind # "string" THEN Rejected(g, cwd, "TypeError")
                 ELSE IF writeFileSyncThrows(g, fullPath) THEN Rejected(g, cwd, "EISDIR")
                 ELSE Fulfilled(writeFileSync(g, fullPath, content.str), dir, JUndefined)

writeFile(f, cwd, targetPath, content) ==
    IF targetPath.kind # "string" THEN Rejected(f, cwd, "TypeError")
    ELSE LET fullPath == pathResolve(cwd, targetPath.str)
             dir == pathDirname(fullPath)
         IN IF mkdirSyncThrows(f, dir) THEN Rejected(f, cwd, "EEXIST")
            ELSE LET g == mkdirSync(f, dir) IN
                 IF content.kind # "string" THEN Rejected(g, cwd, "TypeError")
                 ELSE IF writeFileSyncThrows(g, fullPath) THEN Rejected(g, cwd, "EISDIR")
                 ELSE Fulfilled(writeFileSync(g, fullPath, content.str), cwd, JUndefined)

readFile(f, cwd, targetPath) ==
    IF targetPath.kind # "string" THEN Rejected(f, cwd, "TypeError")
    ELSE LET fullPath == pathResolve(cwd, targetPath.str) IN
         IF existsSync(f, fullPath)
         THEN IF readFileSyncThrows(f, fullPath) THEN Rejected(f, cwd, "EISDIR")
              ELSE Fulfilled(f, cwd, JStr(readFileSync(f, fullPath)))
         ELSE Fulfilled(f, cwd, JNull)

editFile(f, cwd, targetPath, content) ==
    IF targetPath.kind # "string" THEN Rejected(f, cwd, "TypeError")
    ELSE LET fullPath == pathResolve(cwd, targetPath.str) IN
         IF existsSync(f, fullPath)
         THEN IF content.kind # "string" THEN Rejected(f, cwd, "TypeError")
              ELSE IF writeFileSyncThrows(f, fullPath) THEN Rejected(f, cwd, "EISDIR")
              ELSE Fulfilled(writeFileSync(f, fullPath, content.str), cwd, JUndefined)
         ELSE Fulfilled(f, cwd, JUndefined)

changeDirectory(f, cwd, newPath) ==
    IF newPath.kind # "string" THEN Rejected(f, cwd, "TypeError")
    ELSE LET targetPath == pathResolve(cwd, newPath.str) IN
         IF existsSync(f, targetPath) /\ isDirectory(f, targetPath)
         THEN Fulfilled(f, targetPath, JUndefined)
         ELSE IF mkdirSyncThrows(f, targetPath) THEN Rejected(f, cwd, "EEXIST")
              ELSE Fulfilled(mkdirSync(f, targetPath), targetPath, JUndefined)

\* paths.forEach(...) of cleanUp, one element after the other.
RECURSIVE cleanUpEach(_, _, _)
cleanUpEach(f, cwd, paths) ==
    IF paths = <<>> THEN f
    ELSE LET fullPath == pathResolve(cwd, Head(paths))
             g == IF existsSync(f, fullPath)
                  THEN IF isDirectory(f, fullPath) THEN rmSync(f, fullPath)
                       ELSE unlinkSync(f, fullPath)
                  ELSE f
         IN cleanUpEach(g, cwd, Tail(paths))

cleanUp(f, cwd, paths) ==
    IF paths.kind # "array" THEN Rejected(f, cwd, "TypeError")
    ELSE Fulfilled(cleanUpEach(f, cwd, paths.arr), cwd, JUndefined)

\* Variant of fileContains: the file is read without the existsSync test.
fileContainsUnchecked(f, cwd, filePath, searchText) ==
    IF filePath.kind # "string" THEN Rejected(f, cwd, "TypeError")
    ELSE LET fullPath == pathResolve(cwd, filePath.str) IN
         IF ~existsSync(f, fullPath) THEN Rejected(f, cwd, "ENOENT")
         ELSE IF readFileSyncThrows(f, fullPath) THEN Rejected(f, cwd, "EISDIR")
         ELSE Fulfilled(f, cwd, JBool(Includes(readFileSync(f, fullPath), searchText.str)))

fileContains(f, cwd, filePath, searchText) ==
    IF filePath.kind # "string" THEN Rejected(f, cwd, "TypeError")
    ELSE LET fullPath == pathResolve(cwd, filePath.str) IN
         IF existsSync(f, fullPath)
         THEN IF readFileSyncThrows(f, fullPath) THEN Rejected(f, cwd, "EISDIR")
              ELSE Fulfilled(f, cwd, JBool(Includes(readFileSync(f, fullPath), searchText.str)))
         ELSE Fulfilled(f, cwd, JBool(FALSE))

\* logStep, parseShellErrors and suggestImportsOrFixes only print; a
\* non-string argument makes the two text scanners fail on .split/.includes.
logStep(f, cwd, description) == Fulfilled(f, cwd, JUndefined)
parseShellErrors(f, cwd, stderr) ==
    IF stderr.kind # "string" THEN Rejected(f, cwd, "TypeError")
    ELSE Fulfilled(f, cwd, JUndefined)
suggestImportsOrFixes(f, cwd, stderr) ==
    IF stderr.kind \notin {"string", "array"} THEN Rejected(f, cwd, "TypeError")
    ELSE Fulfilled(f, cwd, JUndefined)

\* runShellCommand starts the child process and returns a pending promise.
runShellCommand(f, cwd, command) == Pending(f, cwd)

\* Variant of executeTask: a type outside the switch makes the call reject.
executeTaskStrict(f, cwd, task) ==
    CASE task.type = JStr("shell") -> runShellCommand(f, cwd, task.input)
      [] task.type = JStr("write") -> writeFile(f, cwd, task.input, task.content)
      [] task.type = JStr("read") -> readFile(f, cwd, task.input)
      [] task.type = JStr("edit") -> editFile(f, cwd, task.input, task.content)
      [] task.type = JStr("cd") -> changeDirectory(f, cwd, task.input)
      [] task.type = JStr("clean") -> cleanUp(f, cwd, task.input)
      [] task.type = JStr("contains") -> fileContains(f, cwd, task.input, task.content)
      [] task.type = JStr("log") -> logStep(f, cwd, task.input)
      [] task.type = JStr("errors") -> parseShellErrors(f, cwd, task.input)
      [] task.type = JStr("suggestions") -> suggestImportsOrFixes(f, cwd, task.input)
      [] OTHER -> Rejected(f, cwd, "UnknownTaskType")

\* executeTask up to its first suspension: every kind but shell has run to
\* completion when the call returns its promise.
executeTask(f, cwd, task) ==
    CASE task.type = JStr("shell") -> runShellCommand(f, cwd, task.input)
      [] task.type = JStr("write") -> writeFile(f, cwd, task.input, task.content)
      [] task.type = JStr("read") -> readFile(f, cwd, task.input)
      [] task.type = JStr("edit") -> editFile(f, cwd, task.input, task.content)
      [] task.type = JStr("cd") -> changeDirectory(f, cwd, task.input)
      [] task.type = JStr("clean") -> cleanUp(f, cwd, task.input)
      [] task.type = JStr("contains") -> fileContains(f, cwd, task.input, task.content)
      [] task.type = JStr("log") -> logStep(f, cwd, task.input)
      [] task.type = JStr("errors") -> parseShellErrors(f, cwd, task.input)
      [] task.type = JStr("suggestions") -> suggestImportsOrFixes(f, cwd, task.input)
      [] OTHER -> Fulfilled(f, cwd, JUndefined)

\* ------------------------------------------------------- planner replies
step(obj) == Get(obj, "step")
IsStep(obj, name) == step(obj) = JStr(name)

\* The task an action reply asks for: { type: fType, input: fInput,
\* content: fContent || '' }.
TaskOf(obj) ==
    [type |-> Get(obj, "fType"), input |-> Get(obj, "fInput"),
     content |-> OrElse(Get(obj, "fContent"), JStr(""))]

\* Variant of HasTaskFields: fInput is not looked at.
HasTaskType(obj) == Truthy(Get(obj, "fType"))

\* `if (fType && fInput !== undefined)`
HasTaskFields(obj) ==
    Truthy(Get(obj, "fType")) /\ Get(obj, "fInput") # JUndefined

\* Variant of ShouldExecute: the task fields alone decide, whatever the step.
ShouldExecuteAnyStep(obj) == HasTaskFields(obj)

\* executeTask is called for this reply.
ShouldExecute(obj) == IsStep(obj, "action") /\ HasTaskFields(obj)

\* Variant of pushAnalyzeConvert: the output reply is pushed as well.
pushEveryPhase(msgs, obj) ==
    IF IsStep(obj, "analyze") \/ IsStep(obj, "convert") \/ IsStep(obj, "output")
    THEN Append(msgs, Msg("assistant", JSONstringify(obj)))
    ELSE msgs

\* Variant of pushAnalyzeConvert: the action reply is pushed at once too,
\* ahead of its task.
pushEveryStep(msgs, obj) ==
    IF IsStep(obj, "analyze") \/ IsStep(obj, "convert") \/ IsStep(obj, "action")
    THEN Append(msgs, Msg("assistant", JSONstringify(obj)))
    ELSE msgs

\* Variant of pushAnalyzeConvert: the array is cut down to the system
\* message and the new reply.
pushWindowed(msgs, obj) ==
    IF IsStep(obj, "analyze") \/ IsStep(obj, "convert")
    THEN <<msgs[1], Msg("assistant", JSONstringify(obj))>>
    ELSE msgs

\* The analyze and convert branches: the reply is pushed at once.
pushAnalyzeConvert(msgs, obj) ==
    IF IsStep(obj, "analyze") \/ IsStep(obj, "convert")
    THEN Append(msgs, assistantMessage(obj))
    ELSE msgs

\* The reply is pushed onto `message`.
IsAppended(obj) ==
    IsStep(obj, "analyze") \/ IsStep(obj, "convert") \/ IsStep(obj, "action")

\* The texts the completion endpoint may answer with.
StepReply(name) == JsonText(<<Member("step", JStr(name))>>, FALSE)
ActionReply(fType, fInput, fContent) ==
    JsonText(<<Member("step", JStr("action")), Member("fType", fType),
               Member("fInput", fInput), Member("fContent", fContent)>>, FALSE)

ShellCommands == {"false", "npm install"}

TaskReplies ==
    {ActionReply(JStr("shell"), JStr(c), JStr("")) : c \in ShellCommands}
    \cup {ActionReply(JStr("write"), JStr("a"), JStr("hi")),
          ActionReply(JStr("write"), JStr("a/b"), JStr("yo")),
          ActionReply(JStr("write"), JStr("."), JStr("hi"))}
    \cup {ActionReply(JStr("read"), JStr("a"), JStr(""))}
    \cup {ActionReply(JStr("cd"), JStr("a"), JStr(""))}
    \cup {ActionReply(JStr("clean"), JArr(<<"a">>), JStr("")),
          ActionReply(JStr("clean"), JArr(<<".">>), JStr(""))}

RawReplies ==
    {PlainText("Sure, here is the plan"),
     JsonText(<<Member("content", JStr("thinking"))>>, FALSE),
     StepReply("plan"),
     StepReply("analyze"),
     JsonText(<<Member("step", JStr("analyze")), Member("fType", JStr("write")),
                Member("fInput", JStr("a")), Member("fContent", JStr("hi"))>>, FALSE),
     JsonText(<<Member("step", JStr("analyze")), Member("content", JStr("plan")),
                Member("step", JStr("convert"))>>, TRUE),
     StepReply("output"),
     StepReply("exit"),
     JsonText(<<Member("step", JStr("action")), Member("fInput", JStr("a"))>>, FALSE),
     JsonText(<<Member("step", JStr("action")), Member("fType", JStr("read"))>>, FALSE)}
    \cup TaskReplies

Prompts == {"exit", "create file notes"}

\* The path strings a task resolves against currentDir.
TaskPaths(task) ==
    IF task.type \in {JStr("write"), JStr("read"), JStr("edit"), JStr("cd"), JStr("contains")}
       /\ task.input.kind = "string"
    THEN {task.input.str}
    ELSE IF task.type = JStr("clean") /\ task.input.kind = "array"
         THEN {task.input.arr[i] : i \in 1..Len(task.input.arr)}
         ELSE {}

\* The task stays inside the modelled part of the filesystem.
InBounds(cwd, task) == \A s \in TaskPaths(task) : pathResolve(cwd, s) \in Paths

\* ------------------------------------------------------------------ state
VARIABLES
    pc,             \* where the top-level loop is suspended
    message,        \* the `message` array (History)
    request,        \* `messages` of the completion call in flight
    parsed_result,  \* the last parsed reply
    fs,             \* the filesystem below the launch directory
    currentDir,     \* the `currentDir` cursor
    promise,        \* the promise returned by the last executeTask call
    error,          \* the exception that ended the process, if any
    executed,       \* executeTask calls made since the last completion call was sent
    prompt,         \* the line rl.question resolved with (undefined when it rejected)
    turns,          \* log: the prompts pushed and the analyze/convert/action replies received
    lastCd          \* log: target of the last cd task that returned

vars == <<pc, message, request, parsed_result, fs, currentDir, promise, error, executed,
          prompt, turns, lastCd>>

NoPromise == [status |-> "none", value |-> JUndefined, error |-> ""]
PromiseOf(out) == [status |-> out.status, value |-> out.value, error |-> out.error]

Init ==
    /\ pc = "awaiting-prompt"
    /\ message = <<Msg("system", system_prompt)>>
    /\ request = <<>>
    /\ parsed_result = <<>>
    /\ fs = [p \in Paths |-> IF p = <<>> THEN DirNode ELSE NoNode]
    /\ currentDir = <<>>
    /\ promise = NoPromise
    /\ error = ""
    /\ executed = 0
    /\ prompt = JUndefined
    /\ turns = <<>>
    /\ lastCd = <<>>

\* Variant of IsExitSentinel: another word ends the loop.
IsQuitSentinel(line) == line = "quit"

\* `if (prompt === 'exit')`
IsExitSentinel(line) == line = "exit"

\* Entries of the `turns` log.
UserTurn(line) == [who |-> "user", text |-> PlainText(line)]
ReplyTurn(raw) == [who |-> "planner", text |-> raw]

\* An exception reaches the top level of the module: the process ends.
Crash(e) ==
    /\ pc' = "crashed"
    /\ error' = e

\* Variant of ReadPrompt: every prompt starts at the launch directory.
ReadPromptResettingCursor(line) ==
    /\ pc = "awaiting-prompt"
    /\ prompt' = JStr(line)
    /\ IF IsExitSentinel(line)
       THEN /\ pc' = "exit"
            /\ UNCHANGED <<message, request, turns>>
       ELSE /\ Len(message) < MaxHistory
            /\ message' = Append(message, userMessage(line))
            /\ request' = message'
            /\ turns' = Append(turns, UserTurn(line))
            /\ pc' = "planner-call"
    /\ executed' = 0
    /\ currentDir' = <<>>
    /\ UNCHANGED <<parsed_result, fs, promise, error, lastCd>>

\* rl.question resolves with a line (lines 1086-1105), then the inner loop
\* sends the first completion call (line 1111).
ReadPrompt(line) ==
    /\ pc = "awaiting-prompt"
    /\ prompt' = JStr(line)
    /\ IF IsExitSentinel(line)
       THEN /\ pc' = "exit"
            /\ UNCHANGED <<message, request, turns>>
       ELSE /\ Len(message) < MaxHistory
            /\ message' = Append(message, userMessage(line))
            /\ request' = message'
            /\ turns' = Append(turns, UserTurn(line))
            /\ pc' = "planner-call"
    /\ executed' = 0
    /\ UNCHANGED <<parsed_result, fs, currentDir, promise, error, lastCd>>

\* rl.question rejects: the catch logs it and the inner loop starts anyway
\* (lines 1106-1111).
ReadPromptFails ==
    /\ pc = "awaiting-prompt"
    /\ request' = message
    /\ pc' = "planner-call"
    /\ executed' = 0
    /\ prompt' = JUndefined
    /\ UNCHANGED <<message, parsed_result, fs, currentDir, promise, error, turns, lastCd>>

\* openai.chat.completions.create rejects (line 1111); nothing catches it.
CompletionThrows ==
    /\ pc = "planner-call"
    /\ Crash("EndpointFailure")
    /\ UNCHANGED <<message, request, parsed_result, fs, currentDir, promise, executed,
                   prompt, turns, lastCd>>

\* The completion call resolves with text `raw`; the loop body runs up to
\* its next suspension (lines 1117-1160).
ProcessReply(raw) ==
    /\ pc = "planner-call"
    /\ IF JSONparseThrows(raw)
       THEN /\ Crash("SyntaxError")
            /\ UNCHANGED <<message, request, parsed_result, fs, currentDir, promise, executed,
                           turns, lastCd>>
       ELSE LET obj == JSONparse(raw)
                pushed == pushAnalyzeConvert(message, obj)
            IN /\ parsed_result' = obj
               /\ turns' = IF step(obj) \in {JStr("analyze"), JStr("convert"), JStr("action")}
                           THEN Append(turns, ReplyTurn(raw))
                           ELSE turns
               /\ IF IsStep(obj, "output")
                  THEN /\ pc' = "awaiting-prompt"
                       /\ message' = pushed
                       /\ UNCHANGED <<request, fs, currentDir, promise, error, executed,
                                      lastCd>>
                  ELSE IF ShouldExecute(obj)
                  THEN LET out == executeTask(fs, currentDir, TaskOf(obj)) IN
                       /\ InBounds(currentDir, TaskOf(obj))
                       /\ fs' = out.fs
                       /\ currentDir' = out.cwd
                       /\ promise' = PromiseOf(out)
                       /\ executed' = executed + 1
                       /\ message' = pushed
                       /\ pc' = "acting"
                       /\ lastCd' = IF TaskOf(obj).type = JStr("cd") /\ out.status = "fulfilled"
                                    THEN pathResolve(lastCd, TaskOf(obj).input.str)
                                    ELSE lastCd
                       /\ UNCHANGED <<request, error>>
                  ELSE /\ message' = IF IsStep(obj, "action")
                                     THEN Append(pushed, assistantMessage(obj))
                                     ELSE pushed
                       /\ request' = message'
                       /\ executed' = 0
                       /\ pc' = "planner-call"
                       /\ UNCHANGED <<fs, currentDir, promise, error, lastCd>>
    /\ UNCHANGED prompt

\* The reply leaves History within `bound` messages.
FitsHistory(raw, bound) ==
    IF JSONparseThrows(raw) THEN TRUE
    ELSE LET obj == JSONparse(raw)
         IN IsAppended(obj) \/ ShouldExecute(obj) => Len(message) < bound

PlannerReply(raw) == FitsHistory(raw, MaxHistory) /\ ProcessReply(raw)

\* The child process of a shell task ends: exec's callback settles the
\* promise of runShellCommand (lines 555-565).
ExitCodes(command) ==
    IF command = JStr("false") \/ ~existsSync(fs, currentDir) THEN {1} ELSE {0, 1}

ShellExit(code) ==
    /\ pc = "acting"
    /\ promise.status = "pending"
    /\ code \in ExitCodes(TaskOf(parsed_result).input)
    /\ promise' = IF code = 0
                  THEN [status |-> "fulfilled", value |-> JUndefined, error |-> ""]
                  ELSE [status |-> "rejected", value |-> JUndefined, error |-> "ShellFailure"]
    /\ UNCHANGED <<pc, message, request, parsed_result, fs, currentDir, error, executed,
                   prompt, turns, lastCd>>

\* Variant of TaskSettled: the promise of executeTask is not awaited.
TaskSettledNotAwaited ==
    /\ pc = "acting"
    /\ IF promise.status = "rejected"
       THEN /\ Crash(promise.error)
            /\ UNCHANGED <<message, request, executed>>
       ELSE /\ message' = Append(message, assistantMessage(parsed_result))
            /\ request' = message'
            /\ executed' = 0
            /\ pc' = "planner-call"
            /\ UNCHANGED error
    /\ UNCHANGED <<parsed_result, fs, currentDir, promise, prompt, turns, lastCd>>

\* `await executeTask(...)` resumes (lines 1147-1160): a rejection is thrown
\* at the top level, otherwise the reply is pushed and the next completion
\* call is sent.
TaskSettled ==
    /\ pc = "acting"
    /\ promise.status \in {"fulfilled", "rejected"}
    /\ IF promise.status = "rejected"
       THEN /\ Crash(promise.error)
            /\ UNCHANGED <<message, request, executed>>
       ELSE /\ message' = Append(message, assistantMessage(parsed_result))
            /\ request' = message'
            /\ executed' = 0
            /\ pc' = "planner-call"
            /\ UNCHANGED error
    /\ UNCHANGED <<parsed_result, fs, currentDir, promise, prompt, turns, lastCd>>

Next ==
    \/ \E line \in Prompts : ReadPrompt(line)
    \/ ReadPromptFails
    \/ CompletionThrows
    \/ \E raw \in RawReplies : PlannerReply(raw)
    \/ \E code \in {0, 1} : ShellExit(code)
    \/ TaskSettled

Spec == Init /\ [][Next]_vars

TypeOK ==
    /\ pc \in {"awaiting-prompt", "planner-call", "acting", "exit", "crashed", "idle"}
    /\ Len(message) <= MaxHistory
    /\ currentDir \in Paths

\* The loop under the scheduling of the event loop: a step that can be
\* taken is eventually taken.
FairSpec == Spec /\ WF_vars(Next)

\* ------------------------------------------------------------ properties
Steps == {"analyze", "convert", "action", "output", "exit"}
FilesystemKinds == {"write", "read", "edit", "cd", "clean", "contains"}
LastMessage == message[Len(message)]

\* C1: a shell task whose command exits nonzero does not end the process;
\* the loop goes on to another planner call.
ShellFailureNotFatal == ~(pc = "crashed" /\ error = "ShellFailure")

\* C2: a reply that is not valid JSON does not end the process; the loop
\* retries and finally returns to awaiting-prompt.
MalformedReplyNotFatal == ~(pc = "crashed" /\ error = "SyntaxError")

\* C3: replies whose step is missing or unknown are retried a bounded number
\* of times only: the loop does not stay forever in planner calls answered
\* by such replies.
PhaselessRetryBounded ==
    []<>~(pc = "planner-call" /\ step(parsed_result) \notin {JStr(n) : n \in Steps})

\* C4: a completion call that throws does not end the process; the outer
\* loop returns to awaiting-prompt.
EndpointFailureNotFatal == ~(pc = "crashed" /\ error = "EndpointFailure")

\* C5: between two consecutive planner calls executeTask is invoked at most
\* once, and only for an action reply.
OneTaskPerReply ==
    /\ executed <= 1
    /\ executed = 1 => IsStep(parsed_result, "action")

OneTaskPerReplyWitness ==
    /\ pc = "acting"
    /\ executed = 1
    /\ promise.status = "fulfilled"
    /\ Len(message) >= 3

\* C6 as stated: while the task of an action reply runs, the assistant
\* message recording that reply is already the last message of History.
ReplyAppendedBeforeTask ==
    pc = "acting" =>
        /\ Len(message) = Len(request) + 1
        /\ LastMessage = assistantMessage(parsed_result)

\* C6 amended: the task of an action reply runs while History is still the
\* History sent on the planner call, and the reply is appended only when the
\* task has returned normally, together with the next planner call.
TaskRunsBeforeAppend ==
    [][/\ pc' = "acting" => message' = request'
       /\ pc = "acting" /\ message' # message =>
            /\ promise.status = "fulfilled"
            /\ message' = Append(message, assistantMessage(parsed_result))
            /\ request' = message'
            /\ pc' = "planner-call"]_vars

TaskRunsBeforeAppendWitness ==
    /\ pc = "planner-call"
    /\ ShouldExecute(parsed_result)
    /\ promise.status = "fulfilled"
    /\ LastMessage = assistantMessage(parsed_result)
    /\ request = message

\* C7: after a task has returned a value, the History sent on the next
\* planner call carries that value.
Mentions(text, v) == \E i \in 1..Len(text.members) : text.members[i].v = v

TaskOutcomeInNextRequest ==
    (/\ pc = "planner-call"
     /\ ShouldExecute(parsed_result)
     /\ promise.status = "fulfilled"
     /\ promise.value # JUndefined)
    => Mentions(request[Len(request)].content, promise.value)

\* C8: no filesystem task ends the process.
FilesystemTaskNeverAborts ==
    ~(/\ pc = "crashed"
      /\ error \in {"EEXIST", "EISDIR", "TypeError"}
      /\ TaskOf(parsed_result).type \in {JStr(k) : k \in FilesystemKinds})

\* C9: History holds exactly one system message, the first one, and it is
\* the fixed system prompt.
OneSystemMessage ==
    /\ Len(message) >= 1
    /\ message[1] = Msg("system", system_prompt)
    /\ \A i \in 2..Len(message) : message[i].role # "system"

OneSystemMessageWitness ==
    /\ Len(message) >= 4
    /\ \E i, j \in 2..Len(message) :
          message[i].role = "user" /\ message[j].role = "assistant"
    /\ pc = "awaiting-prompt"

\* C10: every step leaves the previous History as a prefix of the new one.
HistoryAppendOnly == [][IsPrefix(message, message')]_vars

HistoryAppendOnlyWitness ==
    /\ Len(message) >= 4
    /\ \E i, j \in 2..Len(message) :
          i < j /\ message[i].role = "user" /\ message[j].role = "user"
    /\ \E k \in 2..Len(message) : message[k].role = "assistant"

\* ---------------------------------------------- one cycle, from the start
\* The loop restricted to its first cycle: a prompt is read only while no
\* completion call has been sent yet.
FirstCycleNext ==
    \/ /\ request = <<>>
       /\ \E line \in Prompts : ReadPrompt(line)
    \/ /\ request = <<>>
       /\ ReadPromptFails
    \/ CompletionThrows
    \/ \E raw \in RawReplies : PlannerReply(raw)
    \/ \E code \in {0, 1} : ShellExit(code)
    \/ TaskSettled

FirstCycleSpec == Init /\ [][FirstCycleNext]_vars

\* C11: in a cycle started by a prompt from the initial History, once K
\* analyze/convert/action replies have been processed the History holds
\* 1 + 1 + K messages.
PhasesReceived == Cardinality({i \in 1..Len(turns) : turns[i].who = "planner"})

HistoryLengthAfterPhases ==
    (prompt # JUndefined /\ pc \in {"planner-call", "awaiting-prompt"})
    => Len(message) = 1 + 1 + PhasesReceived

HistoryLengthAfterPhasesWitness ==
    /\ pc = "awaiting-prompt"
    /\ prompt # JUndefined
    /\ PhasesReceived = 2
    /\ IsStep(JSONparse(turns[2].text), "action")
    /\ IsStep(JSONparse(turns[3].text), "convert")

\* C12: History is the system message followed by one message per turn, in
\* turn order: the prompt for a user turn, the serialized reply for an
\* analyze/convert/action reply (a reply whose task is still running, or has
\* thrown, is not recorded yet).
Render(t) ==
    IF t.who = "user" THEN Msg("user", t.text)
    ELSE Msg("assistant", JSONstringify(JSONparse(t.text)))

ReplyInFlight ==
    \/ pc = "acting"
    \/ pc = "crashed" /\ error \notin {"SyntaxError", "EndpointFailure"}

TurnsRecorded ==
    IF ReplyInFlight THEN SubSeq(turns, 1, Len(turns) - 1) ELSE turns

HistoryInTurnOrder ==
    message = <<Msg("system", system_prompt)>>
              \o [i \in 1..Len(TurnsRecorded) |-> Render(TurnsRecorded[i])]

HistoryInTurnOrderWitness ==
    /\ pc = "planner-call"
    /\ Len(turns) = 3
    /\ turns[1].who = "user"
    /\ turns[2].who = "planner" /\ turns[2].text.ws
    /\ turns[3].who = "user"
    /\ message[3].content # turns[2].text

\* C13: the line "exit" at the prompt takes the while-loop straight to its
\* end: nothing is appended, no completion call is sent, no task runs, and
\* no step follows.
ExitPromptShortCircuits ==
    [][/\ pc # "exit"
       /\ (pc = "awaiting-prompt" /\ prompt' = JStr("exit")) =>
            /\ pc' = "exit"
            /\ UNCHANGED <<message, request, parsed_result, fs, currentDir, promise, turns>>]_vars

ExitPromptShortCircuitsWitness ==
    /\ pc = "exit"
    /\ prompt = JStr("exit")
    /\ Len(message) >= 3
    /\ request = message

\* ------------------------------------------------- the graph loop (Main)
\* Main (lines 386-524) reads one prompt and runs the graph
\*   __start__ -> firstRes -> geminiCall -> analyze | convert | action -> geminiCall
\*                            geminiCall -> finalOutput -> exit -> __end__
\*                            geminiCall -> exit -> __end__
\* on the same module-level `message`.  The promise of Main(message) has no
\* handler: a rejection ends the process.

\* rl.question resolves (lines 510-521); firstRes pushes the line and
\* geminiCall sends the completion call (lines 458, 466).
firstRes(line) ==
    /\ pc = "awaiting-prompt"
    /\ Len(message) < MaxHistory
    /\ prompt' = JStr(line)
    /\ message' = Append(message, userMessage(line))
    /\ request' = message'
    /\ turns' = Append(turns, UserTurn(line))
    /\ executed' = 0
    /\ pc' = "planner-call"
    /\ UNCHANGED <<parsed_result, fs, currentDir, promise, error, lastCd>>

\* rl.question rejects (line 510): Main rejects.
questionRejects ==
    /\ pc = "awaiting-prompt"
    /\ Crash("PromptFailure")
    /\ UNCHANGED <<message, request, parsed_result, fs, currentDir, promise, executed,
                   prompt, turns, lastCd>>

\* openai.chat.completions.create rejects inside geminiCall (line 466).
geminiCallThrows ==
    /\ pc = "planner-call"
    /\ Crash("EndpointFailure")
    /\ UNCHANGED <<message, request, parsed_result, fs, currentDir, promise, executed,
                   prompt, turns, lastCd>>

\* promptStateChecker with the path map of addConditionalEdges (lines
\* 449-454, 494-500): the node that runs after geminiCall.
Destinations == {"analyze", "convert", "action", "output", "exit"}

\* `graph.invoke(inputs)` (line 521) passes no configuration, so the
\* invocation runs under the library's default recursion limit: it rejects
\* with GraphRecursionError once that many supersteps have run without
\* reaching __end__.
RecursionLimit == 25

\* The superstep in which the completion call now in flight runs: firstRes
\* is the first, and every reply routed so far took one superstep for
\* geminiCall and one for its node.
superStep == 2 * Cardinality({i \in 1..Len(turns) : turns[i].who = "planner"}) + 2

\* The supersteps a reply still needs after geminiCall: its node, and for
\* output the exit node after finalOutput.
stepsAfter(obj) == IF IsStep(obj, "output") THEN 2 ELSE 1

\* geminiCall resolves with text `raw` (lines 472-478) and the graph runs
\* the node chosen by the conditional edge up to its next suspension.
geminiCallResolves(raw) ==
    /\ pc = "planner-call"
    /\ superStep <= RecursionLimit
    /\ IF JSONparseThrows(raw)
       THEN /\ Crash("SyntaxError")
            /\ UNCHANGED <<message, request, parsed_result, fs, currentDir, promise, executed,
                           turns, lastCd>>
       ELSE LET obj == JSONparse(raw) IN
            /\ parsed_result' = obj
            /\ turns' = IF step(obj) \in {JStr("analyze"), JStr("convert"), JStr("action")}
                        THEN Append(turns, ReplyTurn(raw))
                        ELSE turns
            /\ IF step(obj) \notin {JStr(d) : d \in Destinations}
               THEN \* no destination for the value of the branch: invoke rejects
                    /\ Crash("UnknownDestination")
                    /\ UNCHANGED <<message, request, fs, currentDir, promise, executed, lastCd>>
               ELSE IF superStep + stepsAfter(obj) > RecursionLimit
               THEN \* the limit is reached before __end__: invoke rejects
                    /\ Crash("GraphRecursionError")
                    /\ UNCHANGED <<message, request, fs, currentDir, promise, executed, lastCd>>
               ELSE IF IsStep(obj, "output") \/ IsStep(obj, "exit")
               THEN \* finalOutput -> exit -> __end__ (lines 414-417, 440-447, 504-505)
                    /\ pc' = "exit"
                    /\ UNCHANGED <<message, request, fs, currentDir, promise, error, executed,
                                   lastCd>>
               ELSE IF ShouldExecute(obj)
               THEN \* action: `await executeTask(...)` (lines 424-429)
                    LET out == executeTask(fs, currentDir, TaskOf(obj)) IN
                    /\ InBounds(currentDir, TaskOf(obj))
                    /\ fs' = out.fs
                    /\ currentDir' = out.cwd
                    /\ promise' = PromiseOf(out)
                    /\ executed' = executed + 1
                    /\ pc' = "acting"
                    /\ lastCd' = IF TaskOf(obj).type = JStr("cd") /\ out.status = "fulfilled"
                                 THEN pathResolve(lastCd, TaskOf(obj).input.str)
                                 ELSE lastCd
                    /\ UNCHANGED <<message, request, error>>
               ELSE \* analyze, convert, action without a task: push (400, 408, 434)
                    /\ message' = Append(message, assistantMessage(obj))
                    /\ request' = message'
                    /\ executed' = 0
                    /\ pc' = "planner-call"
                    /\ UNCHANGED <<fs, currentDir, promise, error, lastCd>>
    /\ UNCHANGED prompt

geminiCall(raw) == FitsHistory(raw, MaxHistory) /\ geminiCallResolves(raw)

\* `await executeTask(...)` resumes inside the action node (lines 425-437):
\* a rejection makes invoke reject, otherwise the reply is pushed and the
\* edge action -> geminiCall sends the next completion call.
actionSettled ==
    /\ pc = "acting"
    /\ promise.status \in {"fulfilled", "rejected"}
    /\ IF promise.status = "rejected"
       THEN /\ Crash(promise.error)
            /\ UNCHANGED <<message, request, executed>>
       ELSE /\ message' = Append(message, assistantMessage(parsed_result))
            /\ request' = message'
            /\ executed' = 0
            /\ pc' = "planner-call"
            /\ UNCHANGED error
    /\ UNCHANGED <<parsed_result, fs, currentDir, promise, prompt, turns, lastCd>>

MainNext ==
    \/ \E line \in Prompts : firstRes(line)
    \/ questionRejects
    \/ geminiCallThrows
    \/ \E raw \in RawReplies : geminiCall(raw)
    \/ \E code \in {0, 1} : ShellExit(code)
    \/ actionSettled

MainSpec == Init /\ [][MainNext]_vars

\* Main under the scheduling of the event loop.
MainFairSpec == MainSpec /\ WF_vars(MainNext)

\* C14: in Main the line "exit" at the prompt reaches the exit state
\* without a planner round-trip: no user message is appended and no
\* completion call is sent.
ExitPromptShortCircuitsInMain ==
    prompt = JStr("exit") =>
        /\ message = <<Msg("system", system_prompt)>>
        /\ request = <<>>
        /\ pc = "exit"

\* C15: an output reply ends the cycle and control is back at
\* awaiting-prompt, with the process running to accept the next prompt.
OutputReturnsToPrompt ==
    [][(pc = "planner-call" /\ pc' # "crashed" /\ IsStep(parsed_result', "output"))
           => pc' = "awaiting-prompt"]_vars

\* C16: after an exit reply the loop is in its exit state: no further
\* completion call, task or prompt.
ExitReplyEndsLoop == IsStep(parsed_result, "exit") => pc = "exit"

\* C17: when no reply is malformed and no task fails, the loop that has
\* processed an output reply (it is neither calling the planner nor running
\* a task, and was not stopped by the exit prompt) is eventually back at
\* awaiting-prompt, and a running task is followed by another planner call.
OutputProcessed ==
    /\ IsStep(parsed_result, "output")
    /\ pc \notin {"planner-call", "acting"}
    /\ prompt # JStr("exit")

CycleEndsAtPrompt ==
    /\ OutputProcessed ~> (pc = "awaiting-prompt" \/ pc = "crashed")
    /\ (pc = "acting") ~> (pc = "planner-call" \/ pc = "crashed")

\* ------------------------------------------------ the loop as task executor
\* The while-loop started in a launch directory that already has content,
\* with a planner that asks for tasks of every kind.
EmptyTree == [p \in Paths |-> IF p = <<>> THEN DirNode ELSE NoNode]

LaunchTrees ==
    {EmptyTree,
     [EmptyTree EXCEPT ![<<"a">>] = FileNode("hi")],
     [EmptyTree EXCEPT ![<<"a">>] = DirNode, ![<<"a", "a">>] = FileNode("yo")],
     [EmptyTree EXCEPT ![<<"a">>] = DirNode, ![<<"a", "b">>] = FileNode("hi"),
                       ![<<"b">>] = FileNode("hi")]}

ExecutorReplies ==
    TaskReplies
    \cup {ActionReply(JStr("read"), JStr("."), JStr("")),
          ActionReply(JStr("clean"), JStr("a"), JStr("")),
          ActionReply(JStr("log"), JStr("step 1"), JStr("")),
          ActionReply(JStr("deploy"), JStr("a"), JStr("")),
          ActionReply(JStr("edit"), JStr("a"), JStr("ho")),
          ActionReply(JStr("contains"), JStr("a"), JStr("hi")),
          ActionReply(JStr("errors"), JStr("Error: x\nok\n ERR_1 "), JStr("")),
          ActionReply(JStr("errors"), JStr("error\nERR_"), JStr("")),
          ActionReply(JStr("errors"), JStr("ok\nerr_"), JStr("")),
          ActionReply(JStr("suggestions"), JStr("Cannot find module"), JStr("")),
          ActionReply(JStr("cd"), JStr(".."), JStr("")),
          ActionReply(JStr("read"), JStr("a/b"), JStr("")),
          ActionReply(JStr("clean"), JArr(<<"a/b", "b">>), JStr("")),
          StepReply("output")}

ExecutorInit ==
    /\ pc = "awaiting-prompt"
    /\ message = <<Msg("system", system_prompt)>>
    /\ request = <<>>
    /\ parsed_result = <<>>
    /\ fs \in LaunchTrees
    /\ currentDir = <<>>
    /\ promise = NoPromise
    /\ error = ""
    /\ executed = 0
    /\ prompt = JUndefined
    /\ turns = <<>>
    /\ lastCd = <<>>

ExecutorNext ==
    \/ \E line \in Prompts : ReadPrompt(line)
    \/ \E raw \in ExecutorReplies : PlannerReply(raw)
    \/ \E code \in {0, 1} : ShellExit(code)
    \/ TaskSettled

ExecutorSpec == ExecutorInit /\ [][ExecutorNext]_vars

\* C18: a cd task never fails, whatever its target was before, and leaves
\* currentDir at a directory that exists.
CdNeverFails ==
    (pc = "acting" /\ TaskOf(parsed_result).type = JStr("cd")) =>
        /\ promise.status = "fulfilled"
        /\ isDirectory(fs, currentDir)

\* C19: currentDir changes only in the step that executes a cd task; tasks
\* of every other kind, reading a prompt, sending a completion call and
\* appending to History leave it alone.
CursorMovedOnlyByCd ==
    [][currentDir' # currentDir =>
            /\ pc = "planner-call"
            /\ pc' = "acting"
            /\ TaskOf(parsed_result').type = JStr("cd")]_vars

CursorMovedOnlyByCdWitness ==
    /\ pc = "acting"
    /\ currentDir = <<"a">>
    /\ TaskOf(parsed_result).type = JStr("edit")
    /\ promise.status = "fulfilled"
    /\ fs[<<"a", "a">>] = FileNode("ho")

\* C20: currentDir is always the target of the last cd task that returned
\* (the launch directory before any), whatever turns, outputs and prompts
\* came in between, and a write task puts its file relative to that target.
CursorSurvives ==
    /\ currentDir = lastCd
    /\ (pc = "acting" /\ TaskOf(parsed_result).type = JStr("write")
            /\ promise.status = "fulfilled")
        => fs[pathResolve(lastCd, TaskOf(parsed_result).input.str)]
               = FileNode(TaskOf(parsed_result).content.str)

CursorSurvivesWitness ==
    /\ pc = "acting"
    /\ TaskOf(parsed_result).type = JStr("write")
    /\ promise.status = "fulfilled"
    /\ lastCd = <<"a">>
    /\ fs[<<"a", "a">>] = FileNode("hi")
    /\ Len(message) = 3
    /\ message[2].role = "assistant"
    /\ message[3].role = "user"

\* C21: a read task that immediately follows a write task on the same path
\* returns the content that write put there, whether the file and its
\* parent directories existed before or not.
PreviousTask == TaskOf(JSONparse(LastMessage.content))

ReadFollowsWrite ==
    /\ pc = "acting"
    /\ TaskOf(parsed_result).type = JStr("read")
    /\ LastMessage.role = "assistant"
    /\ IsStep(JSONparse(LastMessage.content), "action")
    /\ PreviousTask.type = JStr("write")
    /\ PreviousTask.input = TaskOf(parsed_result).input

WriteThenReadRoundTrip ==
    ReadFollowsWrite =>
        /\ promise.status = "fulfilled"
        /\ promise.value = JStr(PreviousTask.content.str)

WriteThenReadRoundTripWitness ==
    /\ ReadFollowsWrite
    /\ PreviousTask.input = JStr("a/b")
    /\ promise.value = JStr("yo")
    /\ Len(message) = 3

ListedPaths(cwd, paths) == {pathResolve(cwd, paths.arr[i]) : i \in 1..Len(paths.arr)}

CleanRemovesListedOnly ==
    [][(/\ pc = "planner-call"
        /\ pc' = "acting"
        /\ TaskOf(parsed_result').type = JStr("clean")
        /\ TaskOf(parsed_result').input.kind = "array")
       => LET paths == TaskOf(parsed_result').input IN
          /\ promise'.status = "fulfilled"
          /\ \A q \in Paths :
                fs'[q] = IF \E p \in ListedPaths(currentDir, paths) : IsPrefix(p, q)
                         THEN NoNode ELSE fs[q]
          /\ cleanUp(fs', currentDir', paths).fs = fs'
          /\ cleanUp(fs', currentDir', paths).status = "fulfilled"
          /\ currentDir' = currentDir]_vars

CleanRemovesListedOnlyWitness ==
    /\ pc = "acting"
    /\ Len(message) = 2
    /\ TaskOf(parsed_result).input = JArr(<<"a/b", "b">>)
    /\ TaskOf(parsed_result).type = JStr("clean")
    /\ promise.status = "fulfilled"
    /\ fs[<<"a">>] = DirNode
    /\ fs[<<"a", "a">>] = NoNode
    /\ fs[<<"a", "b">>] = NoNode
    /\ fs[<<"b">>] = NoNode

\* C26: an action reply without fType or without fInput runs no task: the
\* filesystem and currentDir stay as they are, the reply is appended to
\* History and the next completion call is sent.
LacksTaskField(obj) ==
    \/ Get(obj, "fType") \in {JUndefined, JStr("")}
    \/ Get(obj, "fInput") = JUndefined

ActionWithoutTaskContinues ==
    [][(/\ pc = "planner-call"
        /\ pc' # "crashed"
        /\ IsStep(parsed_result', "action")
        /\ LacksTaskField(parsed_result'))
       => /\ pc' = "planner-call"
          /\ message' = Append(message, assistantMessage(parsed_result'))
          /\ request' = message'
          /\ executed' = 0
          /\ UNCHANGED <<fs, currentDir, promise>>]_vars

ActionWithoutTaskContinuesWitness ==
    /\ pc = "planner-call"
    /\ IsStep(parsed_result, "action")
    /\ Get(parsed_result, "fType") = JStr("read")
    /\ Get(parsed_result, "fInput") = JUndefined
    /\ LastMessage = assistantMessage(parsed_result)
    /\ request = message
    /\ promise = NoPromise

\* C27: the loop is strictly sequential: a completion call is in flight only
\* when no task is pending and History is complete, a task starts only on a
\* reply and nothing else moves while it runs, at most one task runs per
\* reply, and the call after a task is sent only when the task has returned
\* and its reply has been appended.
TurnSequential ==
    [][/\ pc' = "planner-call" =>
            /\ promise'.status # "pending"
            /\ request' = message'
       /\ pc' = "acting" =>
            \/ pc = "planner-call"
            \/ pc = "acting" /\ UNCHANGED <<message, request, fs, currentDir, parsed_result>>
       /\ (pc = "acting" /\ pc' = "planner-call") =>
            /\ promise.status = "fulfilled"
            /\ message' = Append(message, assistantMessage(parsed_result))
       /\ executed' <= 1]_vars

TurnSequentialWitness ==
    /\ pc = "planner-call"
    /\ TaskOf(parsed_result).type = JStr("shell")
    /\ promise.status = "fulfilled"
    /\ LastMessage = assistantMessage(parsed_result)
    /\ request = message
    /\ Len(message) = 4

\* C29: in every state currentDir names a directory that exists.
CursorAtExistingDirectory == isDirectory(fs, currentDir)

\* C30: every completion call of a cycle carries the prompt of that cycle as
\* the last user message of History, also when reading the prompt failed.
PlannerCallCarriesPrompt ==
    pc \in {"planner-call", "acting"} =>
        /\ prompt # JUndefined
        /\ \E i \in 1..Len(request) :
              /\ request[i] = userMessage(prompt.str)
              /\ \A j \in (i + 1)..Len(request) : request[j].role # "user"

\* ------------------------------------------- the library (ReactAgent.mjs)
\* src/ReactAgent.mjs has the task functions and executeTask but no loop:
\* its caller awaits one executeTask call after the other (lines 329-359).
\* Its functions read as those of the loop file, except editFile.

\* A function passed as `content`, here `(content) => 'ho'`.
JFunction(name) == [kind |-> "function", str |-> name, arr |-> <<>>]
Apply(callback, content) == "ho"

\* editFile(targetPath, callback) of the library (lines 172-185).
editFileByCallback(f, cwd, targetPath, callback) ==
    IF targetPath.kind # "string" THEN Rejected(f, cwd, "TypeError")
    ELSE LET fullPath == pathResolve(cwd, targetPath.str) IN
         IF existsSync(f, fullPath)
         THEN IF readFileSyncThrows(f, fullPath) THEN Rejected(f, cwd, "EISDIR")
              ELSE IF callback.kind # "function"
                   THEN \* `callback(content)`: callback is not a function
                        Rejected(f, cwd, "TypeError")
              ELSE Fulfilled(writeFileSync(f, fullPath, Apply(callback, readFileSync(f, fullPath))),
                             cwd, JUndefined)
         ELSE Fulfilled(f, cwd, JUndefined)

\* executeTask of the library (lines 286-323).
libraryExecuteTask(f, cwd, task) ==
    IF task.type = JStr("edit")
    THEN editFileByCallback(f, cwd, task.input, task.content)
    ELSE executeTask(f, cwd, task)

\* The tasks a caller passes, written as the replies that ask for them.
LibraryTasks ==
    {JSONparse(raw) : raw \in ExecutorReplies \ {StepReply("output")}}
    \cup {JSONparse(ActionReply(JStr("edit"), JStr("a"), JFunction("(content) => 'ho'")))}

LibraryInit ==
    /\ pc = "idle"
    /\ message = <<Msg("system", system_prompt)>>
    /\ request = <<>>
    /\ parsed_result = <<>>
    /\ fs \in LaunchTrees
    /\ currentDir = <<>>
    /\ promise = NoPromise
    /\ error = ""
    /\ executed = 0
    /\ prompt = JUndefined
    /\ turns = <<>>
    /\ lastCd = <<>>

\* The caller calls executeTask(task); the call runs to its first suspension.
LibraryCall(obj) ==
    /\ pc = "idle"
    /\ executed < MaxCalls
    /\ InBounds(currentDir, TaskOf(obj))
    /\ LET out == libraryExecuteTask(fs, currentDir, TaskOf(obj)) IN
       /\ fs' = out.fs
       /\ currentDir' = out.cwd
       /\ promise' = PromiseOf(out)
       /\ lastCd' = IF TaskOf(obj).type = JStr("cd") /\ out.status = "fulfilled"
                    THEN pathResolve(lastCd, TaskOf(obj).input.str)
                    ELSE lastCd
    /\ parsed_result' = obj
    /\ executed' = executed + 1
    /\ pc' = "acting"
    /\ UNCHANGED <<message, request, error, prompt, turns>>

\* The caller's await resumes, with the value or the exception.
LibraryReturn ==
    /\ pc = "acting"
    /\ promise.status \in {"fulfilled", "rejected"}
    /\ pc' = "idle"
    /\ UNCHANGED <<message, request, parsed_result, fs, currentDir, promise, error, executed,
                   prompt, turns, lastCd>>

LibraryNext ==
    \/ \E obj \in LibraryTasks : LibraryCall(obj)
    \/ \E code \in {0, 1} : ShellExit(code)
    \/ LibraryReturn

LibrarySpec == LibraryInit /\ [][LibraryNext]_vars

\* C23: an edit task with a text content, dispatched through executeTask,
\* overwrites the file with that text when the file exists and does nothing
\* when it is absent; it raises no error in either case.
EditOverwritesOrSkips ==
    [][(/\ pc # "acting"
        /\ pc' = "acting"
        /\ TaskOf(parsed_result').type = JStr("edit")
        /\ TaskOf(parsed_result').input.kind = "string"
        /\ TaskOf(parsed_result').content.kind = "string")
       => LET fullPath == pathResolve(currentDir, TaskOf(parsed_result').input.str) IN
          /\ fs[fullPath].kind = "file" =>
                /\ promise'.status = "fulfilled"
                /\ fs' = [fs EXCEPT ![fullPath] = FileNode(TaskOf(parsed_result').content.str)]
          /\ fs[fullPath].kind = "none" =>
                /\ promise'.status = "fulfilled"
                /\ fs' = fs]_vars

\* ------------------------------------------------- parseShellErrors, by character
\* The stderr texts of the model, character by character.
Chars(s) ==
    CASE s = "Error: x\nok\n ERR_1 " ->
            <<"E", "r", "r", "o", "r", ":", " ", "x", "\n", "o", "k", "\n",
              " ", "E", "R", "R", "_", "1", " ">>
      [] s = "error\nERR_" -> <<"e", "r", "r", "o", "r", "\n", "E", "R", "R", "_">>
      [] s = "ok\nerr_" -> <<"o", "k", "\n", "e", "r", "r", "_">>
      [] OTHER -> <<>>

\* stderr.split('\n')
RECURSIVE Split(_)
Split(cs) ==
    IF \A i \in 1..Len(cs) : cs[i] # "\n" THEN <<cs>>
    ELSE LET n == CHOOSE i \in 1..Len(cs) : cs[i] = "\n" /\ \A j \in 1..(i - 1) : cs[j] # "\n"
         IN <<SubSeq(cs, 1, n - 1)>> \o Split(SubSeq(cs, n + 1, Len(cs)))

\* lines.join('\n')
RECURSIVE Join(_)
Join(lines) ==
    IF lines = <<>> THEN <<>>
    ELSE IF Len(lines) = 1 THEN lines[1]
    ELSE lines[1] \o <<"\n">> \o Join(Tail(lines))

\* String.prototype.toLowerCase on the letters of the model
LowerChar(c) ==
    CASE c = "E" -> "e" [] c = "R" -> "r" [] c = "O" -> "o" [] OTHER -> c
toLowerCase(cs) == [i \in 1..Len(cs) |-> LowerChar(cs[i])]

\* String.prototype.includes
includes(cs, pat) ==
    \E i \in 1..(Len(cs) - Len(pat) + 1) : SubSeq(cs, i, i + Len(pat) - 1) = pat

\* String.prototype.trim
WhiteSpace == {" ", "\t", "\r", "\n"}
RECURSIVE trim(_)
trim(cs) ==
    IF cs = <<>> THEN cs
    ELSE IF Head(cs) \in WhiteSpace THEN trim(Tail(cs))
    ELSE IF cs[Len(cs)] \in WhiteSpace THEN trim(SubSeq(cs, 1, Len(cs) - 1))
    ELSE cs

\* `line.toLowerCase().includes('error') || line.includes('ERR_')`
IsErrorLine(line) ==
    \/ includes(toLowerCase(line), <<"e", "r", "r", "o", "r">>)
    \/ includes(line, <<"E", "R", "R", "_">>)

\* The `errors` array parseShellErrors returns (lines 663-683).
errors(stderr) ==
    LET matching == SelectSeq(Split(stderr), IsErrorLine)
    IN [i \in 1..Len(matching) |-> trim(matching[i])]

\* C25: the errors task returns exactly the lines of its stderr text that
\* carry an error marker, unaltered and in their order (an empty sequence
\* when there is none), and returns the same for its own output joined by
\* newlines.
MarkedLines(stderr) == SelectSeq(Split(stderr), IsErrorLine)
LinesValue(lines) == [kind |-> "array", str |-> "", arr |-> lines]

ErrorsTaskExact ==
    (/\ pc = "acting"
     /\ TaskOf(parsed_result).type = JStr("errors")
     /\ TaskOf(parsed_result).input.kind = "string")
    => LET stderr == Chars(TaskOf(parsed_result).input.str) IN
       /\ promise.value = LinesValue(MarkedLines(stderr))
       /\ errors(stderr) = MarkedLines(stderr)
       /\ errors(Join(errors(stderr))) = errors(stderr)

\* ----------------------------------------------------- the notes scenario
\* The while-loop with a planner that answers with the four replies of the
\* scenario only; History may grow one message beyond MaxHistory.
ScenarioReplies ==
    {StepReply("analyze"), StepReply("convert"),
     ActionReply(JStr("write"), JStr("notes.txt"), JStr("hi")),
     StepReply("output")}

ScenarioReply(raw) == FitsHistory(raw, MaxHistory + 1) /\ ProcessReply(raw)

ScenarioNext ==
    \/ \E line \in Prompts : ReadPrompt(line)
    \/ \E raw \in ScenarioReplies : ScenarioReply(raw)
    \/ TaskSettled

ScenarioSpec == Init /\ [][ScenarioNext]_vars

\* C28: from the initial state, a prompt answered by analyze, convert,
\* action(write, "notes.txt", "hi"), output leaves notes.txt with content
\* "hi" as the only file of the current directory, History as [system,
\* user, analyze, convert, action], and the loop at awaiting-prompt.
ScenarioRan ==
    /\ turns = <<UserTurn("create file notes"),
                 ReplyTurn(StepReply("analyze")),
                 ReplyTurn(StepReply("convert")),
                 ReplyTurn(ActionReply(JStr("write"), JStr("notes.txt"), JStr("hi")))>>
    /\ IsStep(parsed_result, "output")
    /\ pc = "awaiting-prompt"

ScenarioOutcome ==
    ScenarioRan =>
        /\ fs = [p \in Paths |->
                    IF p = <<>> THEN [kind |-> "dir", content |-> ""]
                    ELSE IF p = <<"notes.txt">> THEN [kind |-> "file", content |-> "hi"]
                    ELSE [kind |-> "none", content |-> ""]]
        /\ currentDir = <<>>
        /\ promise.status = "fulfilled"
        /\ message = <<Msg("system", system_prompt),
                       Msg("user", PlainText("create file notes")),
                       Msg("assistant", StepReply("analyze")),
                       Msg("assistant", StepReply("convert")),
                       Msg("assistant",
                           ActionReply(JStr("write"), JStr("notes.txt"), JStr("hi")))>>

\* ---------------------------------------------------------------------
\* C31. No output reply is ever pushed onto `message`: every assistant
\* message holds a reply whose step is analyze, convert or action, the
\* first message is the system message and the others are user or
\* assistant messages, and the step that ends a cycle (lines 1135-1139)
\* leaves `message` as it was, so that the next user message directly
\* follows the last intermediate reply of the cycle before.
OutputNeverAppended ==
    [][ /\ message'[1].role = "system"
        /\ \A i \in 2..Len(message') :
              \/ message'[i].role = "user"
              \/ /\ message'[i].role = "assistant"
                 /\ ~JSONparseThrows(message'[i].content)
                 /\ step(JSONparse(message'[i].content))
                        \in {JStr("analyze"), JStr("convert"), JStr("action")}
        /\ (pc = "planner-call" /\ pc' = "awaiting-prompt")
              => /\ step(parsed_result') = JStr("output")
                 /\ message' = message ]_vars

\* A second cycle has begun after an output reply: the new user message
\* sits right after the intermediate reply of the first cycle.
OutputNeverAppendedWitness ==
    /\ pc = "planner-call"
    /\ step(parsed_result) = JStr("output")
    /\ Len(message) = 4
    /\ message[2].role = "user"
    /\ message[3].role = "assistant"
    /\ message[4].role = "user"

\* ---------------------------------------------------------------------
\* The ten cases of the switch in executeTask (lines 714-745).
TaskKinds ==
    {"shell", "write", "read", "edit", "cd", "clean", "contains", "log", "errors",
     "suggestions"}

\* An action reply that carries both task fields and names no case of
\* the switch.
NamesUnknownKind(obj) ==
    /\ step(obj) = JStr("action")
    /\ Truthy(Get(obj, "fType"))
    /\ Get(obj, "fInput") # JUndefined
    /\ Get(obj, "fType") \notin {JStr(k) : k \in TaskKinds}

\* C32. An action reply whose fType is none of the ten kinds executes
\* nothing: when the reply arrives the filesystem, currentDir and `message`
\* stay as they are and the promise of executeTask is fulfilled; when the
\* await resumes no error is raised, the reply is pushed onto `message` and
\* the next completion call is sent with it.
UnknownKindExecutesNothing ==
    [][ /\ (pc = "planner-call" /\ pc' # "crashed" /\ NamesUnknownKind(parsed_result'))
              => /\ pc' = "acting"
                 /\ promise'.status = "fulfilled"
                 /\ fs' = fs
                 /\ currentDir' = currentDir
                 /\ message' = message
                 /\ error' = error
        /\ (pc = "acting" /\ NamesUnknownKind(parsed_result))
              => /\ pc' = "planner-call"
                 /\ message' = Append(message,
                                      Msg("assistant", JSONstringify(parsed_result)))
                 /\ request' = message'
                 /\ fs' = fs
                 /\ currentDir' = currentDir
                 /\ error' = error ]_vars

\* The loop is back at the planner call with the reply of unknown kind as
\* the last message.
UnknownKindExecutesNothingWitness ==
    /\ pc = "planner-call"
    /\ NamesUnknownKind(parsed_result)
    /\ promise.status = "fulfilled"
    /\ error = ""
    /\ message[Len(message)] = Msg("assistant", JSONstringify(parsed_result))

\* ---------------------------------------------------------------------
\* One long cycle of Main: replies that need no task, and a history bound
\* large enough for the recursion limit of graph.invoke to be met.
LongCycleHistory == RecursionLimit \div 2 + 2

LongCycleReplies == {StepReply("analyze"), StepReply("convert"), StepReply("output")}

\* The edge into geminiCall is followed in a superstep beyond the limit:
\* the completion call is not made and invoke rejects (line 521).  MainSpec
\* cannot come here within MaxHistory messages.
recursionLimitReached ==
    /\ pc = "planner-call"
    /\ superStep > RecursionLimit
    /\ Crash("GraphRecursionError")
    /\ UNCHANGED <<message, request, parsed_result, fs, currentDir, promise, executed,
                   prompt, turns, lastCd>>

longCycleCall(raw) == FitsHistory(raw, LongCycleHistory) /\ geminiCallResolves(raw)

LongCycleNext ==
    \/ \E line \in Prompts \ {"exit"} : firstRes(line)
    \/ \E raw \in LongCycleReplies : longCycleCall(raw)
    \/ recursionLimitReached

LongCycleSpec == Init /\ [][LongCycleNext]_vars

\* C33. Within one cycle Main does to History, the filesystem and
\* currentDir what the while loop does (lines 1117-1160): whenever a reply
\* with step analyze, convert, action or output is in hand and the step
\* taken from the planner call is neither an endpoint failure nor a parse
\* failure, a reply with both task fields starts executeTask on the same
\* task, an output reply ends the cycle leaving the three as they are, any
\* other reply is appended and followed by the next planner call, and the
\* process does not fail; when the await of a fulfilled task resumes, the
\* reply is appended and the next planner call follows.
MainMatchesWhileLoop ==
    [][ /\ ( /\ pc = "planner-call"
             /\ error' \notin {"EndpointFailure", "SyntaxError"}
             /\ step(parsed_result') \in {JStr("analyze"), JStr("convert"),
                                          JStr("action"), JStr("output")} )
           => LET obj == parsed_result'
                  out == executeTask(fs, currentDir, TaskOf(obj))
              IN IF step(obj) = JStr("output")
                 THEN /\ pc' \in {"awaiting-prompt", "exit"}
                      /\ message' = message
                      /\ fs' = fs
                      /\ currentDir' = currentDir
                 ELSE IF step(obj) = JStr("action") /\ Truthy(Get(obj, "fType"))
                         /\ Get(obj, "fInput") # JUndefined
                 THEN /\ pc' = "acting"
                      /\ message' = message
                      /\ fs' = out.fs
                      /\ currentDir' = out.cwd
                 ELSE /\ pc' = "planner-call"
                      /\ message' = Append(message, Msg("assistant", JSONstringify(obj)))
                      /\ fs' = fs
                      /\ currentDir' = currentDir
        /\ (pc = "acting" /\ promise.status = "fulfilled")
           => /\ pc' = "planner-call"
              /\ message' = Append(message,
                                   Msg("assistant", JSONstringify(parsed_result)))
              /\ fs' = fs
              /\ currentDir' = currentDir ]_vars

====
